---- MODULE Spec2Model ----
(***************************************************************************)
(* Model of fw_heudiconv.cli.curate.convert_to_bids: the curation          *)
(* orchestrator.  One run of convert_to_bids is a sequential walk through  *)
(* its statements; every statement that calls a collaborator is one step.  *)
(***************************************************************************)
EXTENDS Integers, Sequences, FiniteSets, TLC

VARIABLES
    pc,              \* position of the run inside convert_to_bids
    err,             \* exception that left convert_to_bids ("" = none)
    client,          \* argument: the client handle
    project_label,   \* argument
    subject_labels,  \* argument (None or a list of labels)
    session_labels,  \* argument (None or a list of labels)
    dry_run,         \* argument
    remote_projects, \* labels of the projects the server holds
    remote_sessions, \* sessions the server holds for the project
    project_obj,     \* local
    sessions,        \* local
    seq_infos,       \* local
    heuristic,       \* local: the loaded heuristic module
    to_rename,       \* local: ordered mapping returned by infotodict
    intention_map,   \* local: defaultdict(list)
    idx,             \* position of the for loop in to_rename.items()
    trace,           \* history: collaborator calls / steps, in order
    client_calls,    \* history: methods invoked on the client
    seq_info_calls,  \* history: sessions argument of each get_seq_info call
    heuristic_calls, \* history: argument of each infotodict call
    apply_calls,     \* history: arguments of each apply_heuristic call
    remote_bids      \* destination keys written to the server, in order

vars == << pc, err, client, project_label, subject_labels, session_labels,
           dry_run, remote_projects, remote_sessions, project_obj, sessions,
           seq_infos, heuristic, to_rename, intention_map, idx, trace,
           client_calls, seq_info_calls, heuristic_calls, apply_calls,
           remote_bids >>

(* ---------------------------- bounds ----------------------------------- *)
MaxKeys == 2            \* destination keys a heuristic returns
MaxRunSessions == 1     \* sessions on the server, whole-run specification
MaxRunFilterLen == 1    \* labels per filter, whole-run specification
MaxSessions == 2        \* sessions on the server, filter specification
MaxFilterLen == 2       \* labels per filter, filter specification

(* ---------------------------- universes -------------------------------- *)
\* Labels are strings; they are sequences of characters so that "is a
\* substring of" differs from "is equal to".
L1 == << "s", "1" >>
L10 == << "s", "1", "0" >>
L2 == << "s", "2" >>
Labels == { L1, L10, L2 }
ProjectLabels == { "StudyA", "StudyB" }
Keys == { "key1", "key2", "key3" }
\* the IntendedFor list a heuristic gives for a key, when it gives one
IntentionOf == [k \in Keys |-> IF k = "key3" THEN << >> ELSE << "ref", k >>]
ReadMethods == { "projects.find_first", "get_project_sessions", "get_seq_info.query" }
WriteMethod == "update_file_info"

(* ---------------------------- Python values ---------------------------- *)
PyNone == [isNone |-> TRUE, items |-> << >>]
PyList(xs) == [isNone |-> FALSE, items |-> xs]
\* truth value of None / of a list
Truthy(v) == ~v.isNone /\ Len(v.items) > 0

SeqsUpTo(S, n) == UNION { [1..m -> S] : m \in 0..n }
Range(s) == { s[i] : i \in DOMAIN s }

\* a is a contiguous substring of b
IsSubstring(a, b) ==
    \E off \in 0..(Len(b) - Len(a)) : \A i \in 1..Len(a) : b[off + i] = a[i]

\* x in list, a mutation: partial (substring) match
PyIn_substring(x, list) == \E i \in 1..Len(list) : IsSubstring(x, list[i])
\* x in list: some element equals x
PyIn(x, list) == \E i \in 1..Len(list) : list[i] = x

\* [s for s in ss if s.subject['label'] in labels]
RECURSIVE SubjectComprehension(_, _)
SubjectComprehension(ss, labels) ==
    IF ss = << >> THEN << >>
    ELSE IF PyIn(Head(ss).subject, labels)
         THEN << Head(ss) >> \o SubjectComprehension(Tail(ss), labels)
         ELSE SubjectComprehension(Tail(ss), labels)

\* [s for s in ss if s.label in labels]
RECURSIVE SessionComprehension(_, _)
SessionComprehension(ss, labels) ==
    IF ss = << >> THEN << >>
    ELSE IF PyIn(Head(ss).label, labels)
         THEN << Head(ss) >> \o SessionComprehension(Tail(ss), labels)
         ELSE SessionComprehension(Tail(ss), labels)

\* lines 47-48
FilterBySubject(ss, f) == IF Truthy(f) THEN SubjectComprehension(ss, f.items) ELSE ss
\* lines 49-50
FilterBySession(ss, f) == IF Truthy(f) THEN SessionComprehension(ss, f.items) ELSE ss

(* ---------------------------- collaborators ---------------------------- *)
\* client.projects.find_first: the first match, or None
NoProject == [isNone |-> TRUE, label |-> "", id |-> ""]
FindFirstResult(label, projects) ==
    IF label \in projects THEN [isNone |-> FALSE, label |-> label, id |-> label] ELSE NoProject

\* get_seq_info: one SeqInfo per session handed in, in order
SeqInfosOf(ss) == [i \in 1..Len(ss) |-> ss[i].id]

RECURSIVE Pick(_, _, _)
Pick(s, K, i) ==
    IF i > Len(s) THEN << >>
    ELSE (IF i \in K THEN << s[i] >> ELSE << >>) \o Pick(s, K, i + 1)
SubSeqs(s) == { Pick(s, K, 1) : K \in SUBSET (1..Len(s)) }

\* what infotodict may return: an insertion-ordered mapping (distinct keys)
\* from destination key to a list of the sequences it was given
KeyOrders == { ks \in SeqsUpTo(Keys, MaxKeys) : \A i, j \in DOMAIN ks : i # j => ks[i] # ks[j] }
HeuristicOutputs(infos) ==
    UNION { { [i \in DOMAIN ks |-> [key |-> ks[i], val |-> vs[i]]] :
                vs \in [DOMAIN ks -> SubSeqs(infos)] } : ks \in KeyOrders }

\* heuristic modules: with or without an IntendedFor attribute
NoHeuristic == [loaded |-> FALSE, hasIntendedFor |-> FALSE, IntendedFor |-> << >>]
Heuristics ==
    { [loaded |-> TRUE, hasIntendedFor |-> FALSE, IntendedFor |-> << >>] } \cup
    { [loaded |-> TRUE, hasIntendedFor |-> TRUE, IntendedFor |-> [k \in D |-> IntentionOf[k]]] :
        D \in SUBSET Keys }

\* client methods apply_heuristic invokes: it writes unless told dry_run
ApplyClientCalls(a) == IF a.dry_run THEN << >> ELSE << WriteMethod >>
\* what apply_heuristic leaves on the server
ApplyRemoteBids(bids, a) == IF a.dry_run THEN bids ELSE Append(bids, a.key)

(* ---------------------------- defaultdict(list) ------------------------ *)
\* intention_map.update(m)
DictUpdate(d, m) ==
    [k \in (DOMAIN d) \cup (DOMAIN m) |-> IF k \in DOMAIN m THEN m[k] ELSE d[k]]
\* a mutation: a plain dict, a missing key is a KeyError
MissingKey_plain_dict(d, k) == [raises |-> TRUE, value |-> << >>, dict |-> d]
\* defaultdict.__missing__ with default_factory list
MissingKey(d, k) ==
    [raises |-> FALSE, value |-> << >>,
     dict |-> [x \in (DOMAIN d) \cup {k} |-> IF x = k THEN << >> ELSE d[x]]]
\* intention_map[key]
GetItem(d, k) ==
    IF k \in DOMAIN d THEN [raises |-> FALSE, value |-> d[k], dict |-> d] ELSE MissingKey(d, k)

(* ---------------------------- initial states --------------------------- *)
Session(i, label, subject) == [id |-> i, label |-> label, subject |-> subject]
\* session lists of the server: ids are unique (the position in the list)
SessionLists(n, labels, subjects) ==
    UNION { { [i \in 1..m |-> Session(i, ls[i], ss[i])] :
                ls \in [1..m -> labels], ss \in [1..m -> subjects] } : m \in 0..n }
FilterArgs(n, labels) == { PyNone } \cup { PyList(xs) : xs \in SeqsUpTo(labels, n) }

InitLocals ==
    /\ pc = "start"
    /\ err = ""
    /\ client = "fw"
    /\ project_obj = NoProject
    /\ sessions = << >>
    /\ seq_infos = << >>
    /\ heuristic = NoHeuristic
    /\ to_rename = << >>
    /\ intention_map = << >>
    /\ idx = 0
    /\ trace = << >>
    /\ client_calls = << >>
    /\ seq_info_calls = << >>
    /\ heuristic_calls = << >>
    /\ apply_calls = << >>
    /\ remote_bids = << >>

\* whole runs: few sessions, every heuristic
Init ==
    /\ InitLocals
    /\ project_label \in ProjectLabels
    /\ remote_projects = { "StudyA" }
    /\ remote_sessions \in SessionLists(MaxRunSessions, { L1 }, { L1, L2 })
    /\ subject_labels \in FilterArgs(MaxRunFilterLen, { L1 })
    /\ session_labels \in FilterArgs(MaxRunFilterLen, { L1 })
    /\ dry_run \in BOOLEAN

\* the filtering part of a run: every session list, every filter
InitFilter ==
    /\ InitLocals
    /\ project_label = "StudyA"
    /\ remote_projects = { "StudyA" }
    /\ remote_sessions \in SessionLists(MaxSessions, Labels, Labels)
    /\ subject_labels \in FilterArgs(MaxFilterLen, Labels)
    /\ session_labels \in FilterArgs(MaxFilterLen, Labels)
    /\ dry_run = FALSE

(* ---------------------------- steps ------------------------------------ *)
args == << client, project_label, subject_labels, session_labels, dry_run >>
remote == << remote_projects, remote_sessions, remote_bids >>

\* a mutation: the heuristic is loaded before the server is queried
FindFirst_load_first ==
    /\ pc = "start"
    /\ project_obj' = FindFirstResult(project_label, remote_projects)
    /\ client_calls' = Append(client_calls, "projects.find_first")
    /\ trace' = trace \o << "load_heuristic", "find_first" >>
    /\ pc' = "found"
    /\ UNCHANGED << err, args, remote, sessions, seq_infos, heuristic, to_rename,
                    intention_map, idx, seq_info_calls, heuristic_calls, apply_calls >>
\* line 43
FindFirst ==
    /\ pc = "start"
    /\ project_obj' = FindFirstResult(project_label, remote_projects)
    /\ client_calls' = Append(client_calls, "projects.find_first")
    /\ trace' = Append(trace, "find_first")
    /\ pc' = "found"
    /\ UNCHANGED << err, args, remote, sessions, seq_infos, heuristic, to_rename,
                    intention_map, idx, seq_info_calls, heuristic_calls, apply_calls >>

\* line 44: project_obj['label'] and project_obj.id are evaluated for the
\* logger call; subscripting None raises TypeError
DebugFoundProject ==
    /\ pc = "found"
    /\ IF project_obj.isNone
       THEN pc' = "failed" /\ err' = "TypeError"
       ELSE pc' = "project" /\ err' = err
    /\ UNCHANGED << args, remote, project_obj, sessions, seq_infos, heuristic,
                    to_rename, intention_map, idx, trace, client_calls,
                    seq_info_calls, heuristic_calls, apply_calls >>

\* line 45
GetProjectSessions ==
    /\ pc = "project"
    /\ sessions' = remote_sessions
    /\ client_calls' = Append(client_calls, "get_project_sessions")
    /\ trace' = Append(trace, "get_project_sessions")
    /\ pc' = "sessions"
    /\ UNCHANGED << err, args, remote, project_obj, seq_infos, heuristic, to_rename,
                    intention_map, idx, seq_info_calls, heuristic_calls, apply_calls >>

\* lines 47-48
FilterSubjects ==
    /\ pc = "sessions"
    /\ sessions' = FilterBySubject(sessions, subject_labels)
    /\ trace' = Append(trace, "filter_subject")
    /\ pc' = "subject_filtered"
    /\ UNCHANGED << err, args, remote, project_obj, seq_infos, heuristic, to_rename,
                    intention_map, idx, client_calls, seq_info_calls,
                    heuristic_calls, apply_calls >>

\* a mutation: the second filter starts again from all the sessions
FilterSessions_from_all ==
    /\ pc = "subject_filtered"
    /\ sessions' = FilterBySession(remote_sessions, session_labels)
    /\ trace' = Append(trace, "filter_session")
    /\ pc' = "filtered"
    /\ UNCHANGED << err, args, remote, project_obj, seq_infos, heuristic, to_rename,
                    intention_map, idx, client_calls, seq_info_calls,
                    heuristic_calls, apply_calls >>
\* lines 49-50
FilterSessions ==
    /\ pc = "subject_filtered"
    /\ sessions' = FilterBySession(sessions, session_labels)
    /\ trace' = Append(trace, "filter_session")
    /\ pc' = "filtered"
    /\ UNCHANGED << err, args, remote, project_obj, seq_infos, heuristic, to_rename,
                    intention_map, idx, client_calls, seq_info_calls,
                    heuristic_calls, apply_calls >>

\* line 55
GetSeqInfo ==
    /\ pc = "filtered"
    /\ seq_infos' = SeqInfosOf(sessions)
    /\ seq_info_calls' = Append(seq_info_calls, sessions)
    /\ client_calls' = Append(client_calls, "get_seq_info.query")
    /\ trace' = Append(trace, "get_seq_info")
    /\ pc' = "seq_infos"
    /\ UNCHANGED << err, args, remote, project_obj, sessions, heuristic, to_rename,
                    intention_map, idx, heuristic_calls, apply_calls >>

\* line 55, the query raises
GetSeqInfoRaise ==
    /\ pc = "filtered"
    /\ seq_info_calls' = Append(seq_info_calls, sessions)
    /\ client_calls' = Append(client_calls, "get_seq_info.query")
    /\ trace' = Append(trace, "get_seq_info")
    /\ pc' = "failed"
    /\ err' = "QueryError"
    /\ UNCHANGED << args, remote, project_obj, sessions, seq_infos, heuristic,
                    to_rename, intention_map, idx, heuristic_calls, apply_calls >>

\* line 62
LoadHeuristic ==
    /\ pc = "seq_infos"
    /\ \E h \in Heuristics : heuristic' = h
    /\ trace' = Append(trace, "load_heuristic")
    /\ pc' = "loaded"
    /\ UNCHANGED << err, args, remote, project_obj, sessions, seq_infos, to_rename,
                    intention_map, idx, client_calls, seq_info_calls,
                    heuristic_calls, apply_calls >>

\* line 62, the path does not resolve to a heuristic module
LoadHeuristicRaise ==
    /\ pc = "seq_infos"
    /\ trace' = Append(trace, "load_heuristic")
    /\ pc' = "failed"
    /\ err' = "LoadError"
    /\ UNCHANGED << args, remote, project_obj, sessions, seq_infos, heuristic,
                    to_rename, intention_map, idx, client_calls, seq_info_calls,
                    heuristic_calls, apply_calls >>

\* line 65
Infotodict ==
    /\ pc = "loaded"
    /\ \E out \in HeuristicOutputs(seq_infos) : to_rename' = out
    /\ heuristic_calls' = Append(heuristic_calls, seq_infos)
    /\ trace' = Append(trace, "infotodict")
    /\ pc' = "classified"
    /\ UNCHANGED << err, args, remote, project_obj, sessions, seq_infos, heuristic,
                    intention_map, idx, client_calls, seq_info_calls, apply_calls >>

\* line 65, the heuristic raises
InfotodictRaise ==
    /\ pc = "loaded"
    /\ heuristic_calls' = Append(heuristic_calls, seq_infos)
    /\ trace' = Append(trace, "infotodict")
    /\ pc' = "failed"
    /\ err' = "HeuristicError"
    /\ UNCHANGED << args, remote, project_obj, sessions, seq_infos, heuristic,
                    to_rename, intention_map, idx, client_calls, seq_info_calls,
                    apply_calls >>

\* a mutation: stop when there are no sequences to rename
BuildIntentionMap_return_if_empty ==
    /\ pc = "classified"
    /\ intention_map' = IF heuristic.hasIntendedFor
                        THEN DictUpdate(<< >>, heuristic.IntendedFor)
                        ELSE << >>
    /\ idx' = 1
    /\ pc' = IF seq_infos = << >> THEN "done" ELSE "loop"
    /\ UNCHANGED << err, args, remote, project_obj, sessions, seq_infos, heuristic,
                    to_rename, trace, client_calls, seq_info_calls,
                    heuristic_calls, apply_calls >>
\* lines 70-74; the for loop of line 76 starts at the first item
BuildIntentionMap ==
    /\ pc = "classified"
    /\ intention_map' = IF heuristic.hasIntendedFor
                        THEN DictUpdate(<< >>, heuristic.IntendedFor)
                        ELSE << >>
    /\ idx' = 1
    /\ pc' = "loop"
    /\ UNCHANGED << err, args, remote, project_obj, sessions, seq_infos, heuristic,
                    to_rename, trace, client_calls, seq_info_calls,
                    heuristic_calls, apply_calls >>

\* a mutation: to_rename.items() walked backwards
ItemAt_reversed(m, i) == m[Len(m) + 1 - i]
\* line 76: the i-th (key, val) of to_rename.items(), insertion order
ItemAt(m, i) == m[i]

\* a mutation: dry_run not handed on (apply_heuristic's default is False)
ApplyArgs_without_dry_run(c, item, dry, intended_for) ==
    [client |-> c, key |-> item.key, val |-> item.val, dry_run |-> FALSE,
     intended_for |-> intended_for]
\* line 77: apply_heuristic(client, key, val, dry_run, intention_map[key])
ApplyArgs(c, item, dry, intended_for) ==
    [client |-> c, key |-> item.key, val |-> item.val, dry_run |-> dry,
     intended_for |-> intended_for]

\* a mutation: intention_map is heuristic.IntendedFor itself, not a copy
ApplyHeuristic_aliased ==
    /\ pc = "loop"
    /\ idx <= Len(to_rename)
    /\ LET item == ItemAt(to_rename, idx)
           got == GetItem(intention_map, item.key)
           a == ApplyArgs(client, item, dry_run, got.value)
       IN /\ intention_map' = got.dict
          /\ heuristic' = IF heuristic.hasIntendedFor
                          THEN [heuristic EXCEPT !.IntendedFor = got.dict]
                          ELSE heuristic
          /\ apply_calls' = Append(apply_calls, a)
          /\ client_calls' = client_calls \o ApplyClientCalls(a)
          /\ remote_bids' = ApplyRemoteBids(remote_bids, a)
          /\ trace' = Append(trace, "apply_heuristic")
          /\ idx' = idx + 1
          /\ pc' = pc
          /\ err' = err
    /\ UNCHANGED << args, remote_projects, remote_sessions, project_obj, sessions,
                    seq_infos, to_rename, seq_info_calls, heuristic_calls >>
\* lines 76-77, one iteration: intention_map[key] is evaluated, then
\* apply_heuristic is called and returns
ApplyHeuristic ==
    /\ pc = "loop"
    /\ idx <= Len(to_rename)
    /\ LET item == ItemAt(to_rename, idx)
           got == GetItem(intention_map, item.key)
           a == ApplyArgs(client, item, dry_run, got.value)
       IN IF got.raises
          THEN /\ pc' = "failed"
               /\ err' = "KeyError"
               /\ UNCHANGED << intention_map, apply_calls, client_calls,
                               remote_bids, trace, idx >>
          ELSE /\ intention_map' = got.dict
               /\ apply_calls' = Append(apply_calls, a)
               /\ client_calls' = client_calls \o ApplyClientCalls(a)
               /\ remote_bids' = ApplyRemoteBids(remote_bids, a)
               /\ trace' = Append(trace, "apply_heuristic")
               /\ idx' = idx + 1
               /\ pc' = pc
               /\ err' = err
    /\ UNCHANGED << args, remote_projects, remote_sessions, project_obj, sessions,
                    seq_infos, heuristic, to_rename, seq_info_calls,
                    heuristic_calls >>

\* a mutation: a failed apply call is tried a second time
ApplyHeuristicRaise_retry ==
    /\ pc = "loop"
    /\ idx <= Len(to_rename)
    /\ LET item == ItemAt(to_rename, idx)
           got == GetItem(intention_map, item.key)
           a == ApplyArgs(client, item, dry_run, got.value)
       IN /\ ~got.raises
          /\ intention_map' = got.dict
          /\ apply_calls' = apply_calls \o << a, a >>
          /\ trace' = trace \o << "apply_heuristic", "apply_heuristic" >>
    /\ pc' = "failed"
    /\ err' = "ApplyError"
    /\ UNCHANGED << args, remote, project_obj, sessions, seq_infos, heuristic,
                    to_rename, idx, client_calls, seq_info_calls, heuristic_calls >>
\* lines 76-77, one iteration in which apply_heuristic raises
ApplyHeuristicRaise ==
    /\ pc = "loop"
    /\ idx <= Len(to_rename)
    /\ LET item == ItemAt(to_rename, idx)
           got == GetItem(intention_map, item.key)
           a == ApplyArgs(client, item, dry_run, got.value)
       IN /\ ~got.raises
          /\ intention_map' = got.dict
          /\ apply_calls' = Append(apply_calls, a)
          /\ trace' = Append(trace, "apply_heuristic")
    /\ pc' = "failed"
    /\ err' = "ApplyError"
    /\ UNCHANGED << args, remote, project_obj, sessions, seq_infos, heuristic,
                    to_rename, idx, client_calls, seq_info_calls, heuristic_calls >>

\* line 76: to_rename.items() is exhausted, convert_to_bids returns
Return ==
    /\ pc = "loop"
    /\ idx > Len(to_rename)
    /\ pc' = "done"
    /\ UNCHANGED << err, args, remote, project_obj, sessions, seq_infos, heuristic,
                    to_rename, intention_map, idx, trace, client_calls,
                    seq_info_calls, heuristic_calls, apply_calls >>

(* ---------------------------- specifications --------------------------- *)
Next ==
    \/ FindFirst
    \/ DebugFoundProject
    \/ GetProjectSessions
    \/ FilterSubjects
    \/ FilterSessions
    \/ GetSeqInfo
    \/ GetSeqInfoRaise
    \/ LoadHeuristic
    \/ LoadHeuristicRaise
    \/ Infotodict
    \/ InfotodictRaise
    \/ BuildIntentionMap
    \/ ApplyHeuristic
    \/ ApplyHeuristicRaise
    \/ Return

Spec == Init /\ [][Next]_vars

\* a run up to the sequence-info query
NextFilter ==
    \/ FindFirst
    \/ DebugFoundProject
    \/ GetProjectSessions
    \/ FilterSubjects
    \/ FilterSessions
    \/ GetSeqInfo

SpecFilter == InitFilter /\ [][NextFilter]_vars

(* ---------------------------- properties ------------------------------- *)
ToRenameKeys == { to_rename[i].key : i \in DOMAIN to_rename }
AppliedKeys == { apply_calls[i].key : i \in DOMAIN apply_calls }

\* C1: infotodict is called once, and the apply_heuristic calls are the
\* (key, val) pairs of the returned mapping in insertion order, one call per
\* key, each with the caller's client handle and dry_run value: at every
\* moment the calls made so far are the first pairs of the mapping, and when
\* convert_to_bids returns they are all of them.
C1_ApplyCallsFollowMapping ==
    /\ Len(heuristic_calls) <= 1
    /\ Len(apply_calls) <= Len(to_rename)
    /\ \A i \in DOMAIN apply_calls :
          /\ apply_calls[i].client = client
          /\ apply_calls[i].key = to_rename[i].key
          /\ apply_calls[i].val = to_rename[i].val
          /\ apply_calls[i].dry_run = dry_run
    /\ pc = "done" => Len(heuristic_calls) = 1 /\ Len(apply_calls) = Len(to_rename)

C1_Witness ==
    /\ pc = "done"
    /\ dry_run
    /\ Len(apply_calls) = 2
    /\ to_rename[1].key = "key2"
    /\ to_rename[2].key = "key1"
    /\ to_rename[1].val # to_rename[2].val

\* C2: every apply_heuristic call for key k receives heuristic.IntendedFor[k]
\* when the heuristic has an IntendedFor attribute holding k, and the empty
\* list otherwise; the lookup of a missing key never raises.
C2_IntentionOrEmptyList ==
    /\ err # "KeyError"
    /\ \A i \in DOMAIN apply_calls :
          apply_calls[i].intended_for =
             IF heuristic.hasIntendedFor /\ apply_calls[i].key \in DOMAIN heuristic.IntendedFor
             THEN heuristic.IntendedFor[apply_calls[i].key]
             ELSE << >>

C2_Witness ==
    /\ pc = "done"
    /\ heuristic.hasIntendedFor
    /\ Len(apply_calls) = 2
    /\ apply_calls[1].key \in DOMAIN heuristic.IntendedFor
    /\ apply_calls[1].intended_for = << "ref", apply_calls[1].key >>
    /\ apply_calls[2].key \notin DOMAIN heuristic.IntendedFor
    /\ apply_calls[2].intended_for = << >>

\* C3: with dry_run set, no write reaches the server during the whole run:
\* the client methods invoked are reads only and nothing is written.
C3_DryRunWritesNothing ==
    dry_run => /\ \A i \in DOMAIN client_calls : client_calls[i] \in ReadMethods
               /\ remote_bids = << >>

C3_Witness ==
    /\ dry_run
    /\ pc = "done"
    /\ Len(apply_calls) = 2
    /\ apply_calls[1].val # << >>

\* C4: a project label that matches no project ends the run with a
\* NotFoundError, raised before any other collaborator is called.
C4_NotFoundErrorRaised ==
    (pc = "failed" /\ project_obj.isNone) =>
        /\ err = "NotFoundError"
        /\ trace = << "find_first" >>
        /\ client_calls = << "projects.find_first" >>

\* S restricted to the positions in K, in the order of S (session ids are
\* the positions in the server's list)
IsSelection(R, S, K) ==
    /\ Len(R) = Cardinality(K)
    /\ \A j \in DOMAIN R : R[j].id \in K /\ R[j] = S[R[j].id]
    /\ \A j, k \in DOMAIN R : j < k => R[j].id < R[k].id
Absent(F) == F.isNone \/ F.items = << >>
KeptBySubject == { i \in DOMAIN remote_sessions :
                     Absent(subject_labels) \/ remote_sessions[i].subject \in Range(subject_labels.items) }
KeptBySession == { i \in DOMAIN remote_sessions :
                     Absent(session_labels) \/ remote_sessions[i].label \in Range(session_labels.items) }

C6_FiltersIntersect ==
    pc \in { "filtered", "seq_infos" } =>
        /\ Range(sessions) = Range(FilterBySubject(remote_sessions, subject_labels))
                               \cap Range(FilterBySession(remote_sessions, session_labels))
        /\ sessions = FilterBySubject(FilterBySession(remote_sessions, session_labels),
                                      subject_labels)
        /\ IsSelection(sessions, remote_sessions, KeptBySubject \cap KeptBySession)

C6_Witness ==
    /\ pc = "seq_infos"
    /\ Truthy(subject_labels)
    /\ Truthy(session_labels)
    /\ Len(sessions) = 1
    /\ Len(FilterBySubject(remote_sessions, subject_labels)) = 2
    /\ Len(FilterBySession(remote_sessions, session_labels)) = 1

\* C7: when the apply_heuristic call for the N-th key raises, the exception
\* leaves convert_to_bids as it is, the calls made are those for the first N
\* keys, once each, the writes of the first N-1 stay on the server, and no
\* call is made for a later key.
C7_ApplyFailureStopsRun ==
    err = "ApplyError" =>
        /\ pc = "failed"
        /\ Len(apply_calls) = idx
        /\ \A i \in 1..idx : apply_calls[i].key = to_rename[i].key
        /\ ~dry_run => remote_bids = [i \in 1..(idx - 1) |-> to_rename[i].key]

C7_Witness ==
    /\ err = "ApplyError"
    /\ idx = 2
    /\ ~dry_run
    /\ Len(remote_bids) = 1

StepOrder == << "find_first", "get_project_sessions", "filter_subject",
                "filter_session", "get_seq_info", "load_heuristic", "infotodict" >>

\* C8: the steps of a run happen in the order project lookup, session fetch,
\* filtering, sequence-info query, heuristic load, heuristic invocation,
\* apply calls; a run ended by a load failure or by an exception of the
\* heuristic has made no apply call and has performed the three reads.
C8_StepsInFixedOrder ==
    /\ \A i \in DOMAIN trace :
          trace[i] = IF i <= Len(StepOrder) THEN StepOrder[i] ELSE "apply_heuristic"
    /\ apply_calls # << >> => Len(heuristic_calls) = 1 /\ Len(trace) > Len(StepOrder)
    /\ err \in { "LoadError", "HeuristicError" } =>
          /\ pc = "failed"
          /\ apply_calls = << >>
          /\ remote_bids = << >>
          /\ client_calls = << "projects.find_first", "get_project_sessions",
                               "get_seq_info.query" >>

C8_Witness ==
    /\ err = "HeuristicError"
    /\ Len(trace) = Len(StepOrder)

\* both filter statements have run and no session is left
FilteredEmpty ==
    /\ Len(trace) >= 4
    /\ trace[4] = "filter_session"
    /\ sessions = << >>
CollaboratorErrors == { "QueryError", "LoadError", "HeuristicError", "ApplyError" }

\* C9 as stated: when the filters leave no sessions the run raises nothing of
\* its own, queries the sequence info with the empty list, invokes the
\* heuristic once on zero sequences, and makes no apply call.
C9_NoApplyCallWhenNoSessions ==
    FilteredEmpty =>
        /\ err \in { "" } \cup CollaboratorErrors
        /\ pc = "done" => /\ seq_info_calls = << << >> >>
                          /\ heuristic_calls = << << >> >>
                          /\ apply_calls = << >>

\* C9 amended: when the filters leave no sessions the run raises nothing of
\* its own, queries the sequence info with the empty list, invokes the
\* heuristic once on zero sequences, and makes one apply call, with an empty
\* list of sequences, for every destination key the heuristic returns.
C9_OneApplyCallPerKeyWhenNoSessions ==
    FilteredEmpty =>
        /\ err \in { "" } \cup CollaboratorErrors
        /\ pc # "filtered" => seq_info_calls = << << >> >>
        /\ pc = "done" => /\ heuristic_calls = << << >> >>
                          /\ Len(apply_calls) = Len(to_rename)
                          /\ \A i \in DOMAIN apply_calls :
                                /\ apply_calls[i].key = to_rename[i].key
                                /\ apply_calls[i].val = << >>

C9_Witness ==
    /\ FilteredEmpty
    /\ remote_sessions # << >>
    /\ pc = "done"
    /\ Len(apply_calls) = 2

\* C10: the lookups with a default change only the private intention_map:
\* once loaded, heuristic.IntendedFor keeps its keys and values, the mapping
\* infotodict returned stays as it is, and every apply call is for a key of
\* that mapping (a key found only in IntendedFor causes none).
C10_HeuristicLeftUntouched ==
    /\ [][(heuristic.loaded => heuristic' = heuristic)
           /\ (pc \in { "classified", "loop" } => to_rename' = to_rename)]_vars
    /\ [](AppliedKeys \subseteq ToRenameKeys)

C10_Witness ==
    /\ pc = "done"
    /\ heuristic.hasIntendedFor
    /\ \E k \in AppliedKeys : k \notin DOMAIN heuristic.IntendedFor
    /\ \E k \in DOMAIN heuristic.IntendedFor : k \notin ToRenameKeys
    /\ DOMAIN intention_map # DOMAIN heuristic.IntendedFor
====
